---- MODULE Spec2Model ----
(***************************************************************************)
(* A model of seag-romtools: the container parser and re-encoder of        *)
(* parse.py (Blob, File, Directory, Container, DiscContainer,              *)
(* OldContainer, build_root_container) and the ELF32 builder of rom2elf.py *)
(* (Elf32.add_segment, resolve_segment_overlaps, to_blob).                 *)
(*                                                                         *)
(* Bytes are the integers 0..255 and a byte string is a sequence of them.  *)
(* A Python exception is a result whose status names the exception.        *)
(* A 32-bit loadAddress is kept as its two 16-bit halves <<lo, hi>>, since *)
(* TLC's integers stop at 2^31-1.                                          *)
(***************************************************************************)
EXTENDS Integers, Sequences, FiniteSets, TLC

VARIABLES
    \* File header codec (parse.py, class File)
    fPacked, fId, fType, fUnknown, fLoadAddress, fBlobLen, fHeader, fParsed,
    \* Elf32 (rom2elf.py)
    segments, elfPhase, resolveLog, elfBlob,
    \* parser entry points (parse.py)
    input, inputId, op, result, output

fileVars == <<fPacked, fId, fType, fUnknown, fLoadAddress, fBlobLen, fHeader, fParsed>>
elfVars == <<segments, elfPhase, resolveLog, elfBlob>>
parseVars == <<input, inputId, op, result, output>>
vars == <<fileVars, elfVars, parseVars>>

----------------------------------------------------------------------------
(* Python and struct primitives *)

Min(a, b) == IF a <= b THEN a ELSE b
Max(a, b) == IF a >= b THEN a ELSE b

\* Python's d[a:b] for 0 <= a, 0 <= b: clipped to the sequence, empty when a >= b.
Slice(d, a, b) == SubSeq(d, a + 1, Min(b, Len(d)))

\* Python's d[a:] for 0 <= a.
From(d, a) == SubSeq(d, a + 1, Len(d))

RECURSIVE BitOr(_, _)
BitOr(a, b) ==
    IF a = 0 THEN b
    ELSE IF b = 0 THEN a
    ELSE (IF a % 2 = 1 \/ b % 2 = 1 THEN 1 ELSE 0) + 2 * BitOr(a \div 2, b \div 2)

RECURSIVE BitAnd(_, _)
BitAnd(a, b) ==
    IF a = 0 \/ b = 0 THEN 0
    ELSE (IF a % 2 = 1 /\ b % 2 = 1 THEN 1 ELSE 0) + 2 * BitAnd(a \div 2, b \div 2)

\* struct.pack of one little-endian unsigned field of k bytes.
RECURSIVE LE(_, _)
LE(n, k) == IF k = 0 THEN <<>> ELSE <<n % 256>> \o LE(n \div 256, k - 1)

\* struct.unpack of one little-endian unsigned field.
RECURSIVE FromLE(_)
FromLE(bytes) ==
    IF bytes = <<>> THEN 0 ELSE Head(bytes) + 256 * FromLE(Tail(bytes))

RECURSIVE Zeros(_)
Zeros(k) == IF k = 0 THEN <<>> ELSE <<0>> \o Zeros(k - 1)

----------------------------------------------------------------------------
(* class File: the 8-byte header codec *)

CHUNK_SIZE == 64

\* File.header_blob, on the fields it reads; blobLen is len(self.blob).
\* struct.pack raises struct.error for a field outside its width.
File_header_blob_noShift(packed, fileId, fileType, unknown, blobLen, loadAddress) ==
    LET fileInfo == BitAnd(BitOr(BitOr(IF packed THEN 1 ELSE 0, fileId * 2), fileType * 32), 255)
        sizeBytes == blobLen % CHUNK_SIZE
        sizeBytesAndUnknown == BitOr(sizeBytes, unknown)
        sizeChunks == blobLen \div CHUNK_SIZE
    IN  IF sizeBytesAndUnknown > 255 \/ sizeChunks > 65535
        THEN [status |-> "struct.error", bytes |-> <<>>]
        ELSE [status |-> "ok",
              bytes |-> <<fileInfo, sizeBytesAndUnknown>> \o LE(sizeChunks, 2)
                        \o LE(loadAddress[1], 2) \o LE(loadAddress[2], 2)]

File_header_blob(packed, fileId, fileType, unknown, blobLen, loadAddress) ==
    LET fileInfo == BitAnd(BitOr(BitOr(IF packed THEN 1 ELSE 0, fileId * 2), fileType * 32), 255)
        sizeBytes == blobLen % CHUNK_SIZE
        sizeBytesAndUnknown == BitOr(sizeBytes * 4, unknown)
        sizeChunks == blobLen \div CHUNK_SIZE
    IN  IF sizeBytesAndUnknown > 255 \/ sizeChunks > 65535
        THEN [status |-> "struct.error", bytes |-> <<>>]
        ELSE [status |-> "ok",
              bytes |-> <<fileInfo, sizeBytesAndUnknown>> \o LE(sizeChunks, 2)
                        \o LE(loadAddress[1], 2) \o LE(loadAddress[2], 2)]

NoHeader ==
    [status |-> "AssertionError", packed |-> FALSE, id |-> 0, type |-> 0,
     unknown |-> 0, size |-> 0, loadAddress |-> <<0, 0>>]

\* File.parse_header
File_parse_header(bytes) ==
    IF Len(bytes) # 8 THEN NoHeader
    ELSE
    LET fileInfo == bytes[1]
        sizeBytesAndUnknown == bytes[2]
        sizeChunks == FromLE(SubSeq(bytes, 3, 4))
        sizeBytes == (BitAnd(sizeBytesAndUnknown, 240)) \div 4
    IN  [status |-> "ok",
         packed |-> (BitAnd(fileInfo, 1) = 1),
         id |-> BitAnd(fileInfo \div 2, 15),
         type |-> fileInfo \div 32,
         unknown |-> BitAnd(sizeBytesAndUnknown, 15),
         size |-> sizeChunks * CHUNK_SIZE + sizeBytes,
         loadAddress |-> <<FromLE(SubSeq(bytes, 5, 6)), FromLE(SubSeq(bytes, 7, 8))>>]

----------------------------------------------------------------------------
(* class Elf32 *)

OSABI_SYSV == 0
ET_EXEC == 2
MACHINE_ARM == 40
PT_LOAD == 1
PF_ALL == 7
SHT_NULL == 0
SHF_NONE == 0

\* Elf32.elf32_header: struct.pack('<8B8xHH5I6H', ...)
elf32_header(osabi, type, machine, entry, phoff, shoff, flags, phnum, shnum, shstrndx) ==
    <<127, 69, 76, 70, 1, 1, 1, osabi>> \o Zeros(8)
    \o LE(type, 2) \o LE(machine, 2)
    \o LE(1, 4) \o LE(entry, 4) \o LE(phoff, 4) \o LE(shoff, 4) \o LE(flags, 4)
    \o LE(52, 2) \o LE(32, 2) \o LE(phnum, 2) \o LE(40, 2) \o LE(shnum, 2) \o LE(shstrndx, 2)

\* Elf32.program_header: struct.pack('<8I', ...), flags and align at their defaults
program_header(type, offset, vaddr, paddr, filesz, memsz) ==
    LE(type, 4) \o LE(offset, 4) \o LE(vaddr, 4) \o LE(paddr, 4)
    \o LE(filesz, 4) \o LE(memsz, 4) \o LE(PF_ALL, 4) \o LE(0, 4)

\* Elf32.section_header: struct.pack('<10I', ...)
section_header(name, type, flags, addr, offset, size, link, info, addralign, entsize) ==
    LE(name, 4) \o LE(type, 4) \o LE(flags, 4) \o LE(addr, 4) \o LE(offset, 4)
    \o LE(size, 4) \o LE(link, 4) \o LE(info, 4) \o LE(addralign, 4) \o LE(entsize, 4)

\* the first loop of Elf32.to_blob: one program header per segment
RECURSIVE ProgramHeaders(_, _)
ProgramHeaders(segs, offset) ==
    IF segs = <<>> THEN <<>>
    ELSE program_header(PT_LOAD, offset, Head(segs).address, 0,
                        Len(Head(segs).data), Len(Head(segs).data))
         \o ProgramHeaders(Tail(segs), offset + Len(Head(segs).data))

\* the second loop of Elf32.to_blob: the segments' bytes in order
RECURSIVE SegmentData(_)
SegmentData(segs) ==
    IF segs = <<>> THEN <<>> ELSE Head(segs).data \o SegmentData(Tail(segs))

\* Elf32.to_blob
Elf32_to_blob(segs) ==
    LET offset == 52 + 32 * Len(segs) + 40
    IN  elf32_header(OSABI_SYSV, ET_EXEC, MACHINE_ARM, 0,
                     52, 52 + 32 * Len(segs),
                     0, Len(segs),
                     0, 0)
        \o ProgramHeaders(segs, offset)
        \o section_header(0, SHT_NULL, SHF_NONE, 0, 0, 0, 0, 0, 0, 0)
        \o SegmentData(segs)

SegEnd(seg) == seg.address + Len(seg.data)

\* the overlap test of resolve_segment_overlaps
Overlap(cur, seg) ==
    \/ (cur.address <= seg.address /\ seg.address <= SegEnd(cur))
    \/ (cur.address <= SegEnd(seg) /\ SegEnd(seg) <= SegEnd(cur))

\* the replacement segment kept at the existing address: the variant without
\* min(address, curAddress)
Combine_keepCurAddress(cur, seg) ==
    LET startOffset == Max(0, seg.address - cur.address)
        endOffset == Min(Len(cur.data), SegEnd(seg) - cur.address)
    IN  [data |-> Slice(cur.data, 0, startOffset) \o seg.data \o From(cur.data, endOffset),
         address |-> cur.address]

\* the replacement segment of resolve_segment_overlaps; both offsets are >= 0
\* whenever Overlap holds
Combine(cur, seg) ==
    LET startOffset == Max(0, seg.address - cur.address)
        endOffset == Min(Len(cur.data), SegEnd(seg) - cur.address)
    IN  [data |-> Slice(cur.data, 0, startOffset) \o seg.data \o From(cur.data, endOffset),
         address |-> Min(seg.address, cur.address)]

\* the inner loop's break: the first index whose segment overlaps, 0 for none
FirstOverlap(newSegments, seg) ==
    LET hits == {i \in 1..Len(newSegments) : Overlap(newSegments[i], seg)}
    IN  IF hits = {} THEN 0 ELSE CHOOSE i \in hits : \A j \in hits : i <= j

\* one iteration of the outer loop of resolve_segment_overlaps
ResolveOne(newSegments, seg) ==
    LET i == FirstOverlap(newSegments, seg)
    IN  IF i = 0 THEN Append(newSegments, seg)
        ELSE [newSegments EXCEPT ![i] = Combine(newSegments[i], seg)]

\* newSegments after the first k incoming segments; segs is not empty
RECURSIVE ResolvePrefix(_, _)
ResolvePrefix(segs, k) ==
    IF k = 0 THEN <<segs[1]>>
    ELSE ResolveOne(ResolvePrefix(segs, k - 1), segs[k + 1])

\* Elf32.resolve_segment_overlaps; self.segments[0] raises IndexError on an
\* empty list, which the action below keeps out by its guard
resolve_segment_overlaps(segs) == ResolvePrefix(segs, Len(segs) - 1)

\* what each iteration of the outer loop saw and did
ResolveTrace(segs) ==
    [k \in 1..(Len(segs) - 1) |->
        [incoming |-> segs[k + 1],
         before |-> ResolvePrefix(segs, k - 1),
         index |-> FirstOverlap(ResolvePrefix(segs, k - 1), segs[k + 1]),
         after |-> ResolvePrefix(segs, k)]]

----------------------------------------------------------------------------
(* The element tree of parse.py.  A node is a record: kind names the class, *)
(* id and elements are Element's fields, the rest are the class's own.      *)

EXTRA_SPACE_ID == 0
ROOT_CONTAINER_ID == 29

\* b'csiD'
Signature == <<99, 115, 105, 68>>

Failed(status) == [status |-> status, node |-> [kind |-> "none"]]
Built(node) == [status |-> "ok", node |-> node]

\* Blob.__init__
Blob(id, bytes) == [kind |-> "Blob", id |-> id, elements |-> <<>>, data |-> bytes]

\* a local variable of the source: value is computed once, at the assignment,
\* and Body reads it as often as the statements after the assignment do
Bind(value, Body(_)) == Body(value)

\* File.__init__; its callers pass at least 8 bytes
File(bytes) ==
    Bind(File_parse_header(Slice(bytes, 0, 8)), LAMBDA h :
        [kind |-> "File", id |-> h.id, elements |-> <<>>,
         packed |-> h.packed, type |-> h.type, unknown |-> h.unknown,
         size |-> h.size, loadAddress |-> h.loadAddress,
         blob |-> Slice(bytes, 8, 8 + h.size)])

RECURSIVE to_blob(_)
RECURSIVE ChildBlobs(_)
RECURSIVE TableEntries(_, _)
RECURSIVE DirectoryScan(_, _)
RECURSIVE NewEntries(_, _)
RECURSIVE ScanBack(_, _)
RECURSIVE Children(_, _, _)
RECURSIVE Container(_, _, _)
RECURSIVE create_element(_, _)

\* the loop of Element.to_blob over self.elements
ChildBlobs(elements) ==
    IF elements = <<>> THEN <<>>
    ELSE to_blob(Head(elements)) \o ChildBlobs(Tail(elements))

\* struct.pack('<BI', element.id & 0xff, offset & 0xffffffff)[:4]: the id and
\* the low three bytes of the offset
PackEntry(id, offset) == <<BitAnd(id, 255)>> \o LE(offset % 16777216, 3)

\* the table loop with a cursor that stays at 0 once a zero-size child reset it
TableEntries_stickyZero(elements, offset) ==
    IF elements = <<>> THEN <<>>
    ELSE Bind(Len(to_blob(Head(elements))), LAMBDA size :
             PackEntry(Head(elements).id, offset)
             \o TableEntries(Tail(elements),
                             IF size # 0 /\ offset # 0 THEN offset + size ELSE 0))

\* the loop of Container.header_blob, from the element at hand and the cursor
TableEntries(elements, offset) ==
    IF elements = <<>> THEN <<>>
    ELSE Bind(Len(to_blob(Head(elements))), LAMBDA size :
             PackEntry(Head(elements).id, offset)
             \o TableEntries(Tail(elements), IF size # 0 THEN offset + size ELSE 0))

\* Container.header_blob without the root-container-id case: the table is
\* always written
Container_header_blob_always(node) ==
    node.preSegmentTableHeader
    \o TableEntries(node.elements,
                    Len(node.preSegmentTableHeader) + 4 * Len(node.elements))

\* Container.header_blob
Container_header_blob(node) ==
    IF node.elements # <<>> /\ node.elements[1].id = ROOT_CONTAINER_ID
    THEN <<>>
    ELSE node.preSegmentTableHeader
         \o TableEntries(node.elements,
                         Len(node.preSegmentTableHeader) + 4 * Len(node.elements))

\* header_blob of each class; a parsed File's fields always fit their widths
header_blob(node) ==
    CASE node.kind = "Blob" -> node.data
      [] node.kind = "File" ->
            File_header_blob(node.packed, node.id, node.type, node.unknown,
                             Len(node.blob), node.loadAddress).bytes
      [] node.kind = "Directory" -> <<>>
      [] OTHER -> Container_header_blob(node)

\* footer_blob of each class
footer_blob(node) == IF node.kind = "File" THEN node.blob ELSE <<>>

\* Element.to_blob
to_blob(node) == header_blob(node) \o ChildBlobs(node.elements) \o footer_blob(node)

\* the while loop without its break on file.id == 0
DirectoryScan_noTerminator(bytes, offset) ==
    IF offset + 8 <= Len(bytes)
    THEN Bind(File(From(bytes, offset)), LAMBDA file :
         Bind(DirectoryScan(bytes, offset + Len(to_blob(file))), LAMBDA rest :
             [files |-> <<file>> \o rest.files, offset |-> rest.offset]))
    ELSE [files |-> <<>>, offset |-> offset]

\* the while loop of Directory.__init__: the Files read from offset on and the
\* offset it ends at
DirectoryScan(bytes, offset) ==
    IF offset + 8 <= Len(bytes)
    THEN Bind(File(From(bytes, offset)), LAMBDA file :
         Bind(offset + Len(to_blob(file)), LAMBDA next :
             IF file.id = 0
             THEN [files |-> <<file>>, offset |-> next]
             ELSE Bind(DirectoryScan(bytes, next), LAMBDA rest :
                      [files |-> <<file>> \o rest.files, offset |-> rest.offset])))
    ELSE [files |-> <<>>, offset |-> offset]

\* Directory.__init__
Directory(id, bytes) ==
    Bind(DirectoryScan(bytes, 0), LAMBDA scan :
        [kind |-> "Directory", id |-> id,
         elements |-> IF scan.offset # Len(bytes)
                      THEN Append(scan.files, Blob(0, From(bytes, scan.offset)))
                      ELSE scan.files])

\* Container.parse_entry: assert len(data) == 4, then struct.unpack('<BI', data + b'\0')
parse_entry(bytes) ==
    IF Len(bytes) # 4 THEN [status |-> "AssertionError", id |-> 0, offset |-> 0]
    ELSE [status |-> "ok", id |-> bytes[1], offset |-> FromLE(SubSeq(bytes, 2, 4))]

FirstBad(entries) ==
    IF \E i \in DOMAIN entries : entries[i].status # "ok"
    THEN "AssertionError" ELSE "ok"

\* Container.get_elements_old
get_elements_old(bytes, preLen) ==
    Bind(parse_entry(Slice(bytes, preLen, preLen + 4)).offset, LAMBDA firstElementOffset :
    Bind(Slice(bytes, preLen, firstElementOffset), LAMBDA table :
    Bind([k \in 1..((Len(table) + 3) \div 4) |->
              parse_entry(Slice(table, 4 * (k - 1), 4 * k))], LAMBDA entries :
        [status |-> FirstBad(entries), elements |-> entries])))

\* the loop of Container.get_elements_new; table is data[PRE_TABLE_HEADER_LENGTH:]
NewEntries(table, tableOffset) ==
    Bind(parse_entry(Slice(table, tableOffset, tableOffset + 4)), LAMBDA entry :
        IF entry.status # "ok" THEN <<entry>>
        ELSE IF entry.id = EXTRA_SPACE_ID THEN <<entry>>
        ELSE <<entry>> \o NewEntries(table, tableOffset + 4))

\* Container.get_elements_new
get_elements_new(bytes, preLen) ==
    Bind(NewEntries(From(bytes, preLen), 0), LAMBDA entries :
        [status |-> FirstBad(entries), elements |-> entries])

\* Container.signature_assert, the base class's: pass
signature_assert_none(kind, bytes) == TRUE

\* signature_assert of DiscContainer and of OldContainer
signature_assert(kind, bytes) ==
    IF kind = "DiscContainer" THEN Slice(bytes, 16, 20) = Signature
    ELSE Slice(bytes, 16, 20) # Signature

PRE_TABLE_HEADER_LENGTH(kind) == IF kind = "DiscContainer" THEN 32 ELSE 16

\* a scan that takes the first nonzero offset of the table, not the last
ScanBack_fromFront(elements, lastIndex) ==
    LET present == {i \in DOMAIN elements : elements[i].offset # 0}
    IN  IF present = {} THEN [status |-> "IndexError", offset |-> 0]
        ELSE [status |-> "ok",
              offset |-> elements[CHOOSE i \in present : \A j \in present : i <= j].offset]

\* lastIndex = -1 and the while loop that follows it in Container.__init__;
\* lastIndex counts from the end, and elements[lastIndex] raises IndexError
\* once it passes the front of the list
ScanBack(elements, lastIndex) ==
    IF lastIndex > Len(elements) THEN [status |-> "IndexError", offset |-> 0]
    ELSE LET lastOffset == elements[Len(elements) + 1 - lastIndex].offset
         IN  IF lastOffset = 0 THEN ScanBack(elements, lastIndex + 1)
             ELSE [status |-> "ok", offset |-> lastOffset]

\* the for loop of Container.__init__ from index i on: the elements it appends,
\* or the exception a nested container raises
Children(bytes, elements, i) ==
    IF i >= Len(elements) THEN [status |-> "ok", nodes |-> <<>>]
    ELSE LET currentId == elements[i].id
             currentOffset == elements[i].offset
             nextOffset == elements[i + 1].offset
             elementData == Slice(bytes, currentOffset, nextOffset)
         IN  Bind(IF currentId = ROOT_CONTAINER_ID \/ currentOffset = 0
                  THEN Built(Blob(currentId, elementData))
                  ELSE create_element(currentId, elementData), LAMBDA element :
                 IF element.status # "ok"
                 THEN [status |-> element.status, nodes |-> <<>>]
                 ELSE Bind(Children(bytes, elements, i + 1), LAMBDA rest :
                          [status |-> rest.status,
                           nodes |-> IF rest.status = "ok"
                                     THEN <<element.node>> \o rest.nodes ELSE <<>>]))

\* Container.__init__ as DiscContainer or OldContainer runs it
Container(kind, id, bytes) ==
    Bind(PRE_TABLE_HEADER_LENGTH(kind), LAMBDA preLen :
    IF ~signature_assert(kind, bytes) THEN Failed("AssertionError") ELSE
    Bind(parse_entry(Slice(bytes, preLen, preLen + 4)), LAMBDA first :
    IF first.status # "ok" THEN Failed(first.status) ELSE
    Bind(IF first.offset # 0 THEN get_elements_old(bytes, preLen)
         ELSE get_elements_new(bytes, preLen), LAMBDA table :
    IF table.status # "ok" THEN Failed(table.status) ELSE
    Bind(table.elements, LAMBDA elements :
    Bind(Children(bytes, elements, 1), LAMBDA inner :
    IF inner.status # "ok" THEN Failed(inner.status) ELSE
    Bind(ScanBack(elements, 1), LAMBDA scan :
    IF scan.status # "ok" THEN Failed(scan.status) ELSE
    Bind(create_element(elements[Len(elements)].id, From(bytes, scan.offset)), LAMBDA last :
    IF last.status # "ok" THEN Failed(last.status) ELSE
    Built([kind |-> kind, id |-> id,
           elements |-> Append(inner.nodes, last.node),
           preSegmentTableHeader |-> Slice(bytes, 0, preLen)]))))))))

\* create_element with the signature test on every range of 20 bytes or more
create_element_sig20(id, bytes) ==
    IF Len(bytes) >= 20 /\ Slice(bytes, 16, 20) = Signature
    THEN Container("DiscContainer", id, bytes)
    ELSE IF Len(bytes) < 8 THEN Built(Blob(id, bytes))
    ELSE Bind(File_parse_header(Slice(bytes, 0, 8)), LAMBDA h :
             IF 0 <= h.size /\ h.size <= Len(bytes) /\ h.loadAddress # <<65535, 65535>>
             THEN Built(Directory(id, bytes))
             ELSE Built(Blob(id, bytes)))

\* Container.create_element
create_element(id, bytes) ==
    IF Len(bytes) > 36 /\ Slice(bytes, 16, 20) = Signature
    THEN Container("DiscContainer", id, bytes)
    ELSE IF Len(bytes) < 8 THEN Built(Blob(id, bytes))
    ELSE Bind(File_parse_header(Slice(bytes, 0, 8)), LAMBDA h :
             IF 0 <= h.size /\ h.size <= Len(bytes) /\ h.loadAddress # <<65535, 65535>>
             THEN Built(Directory(id, bytes))
             ELSE Built(Blob(id, bytes)))

\* build_root_container
build_root_container(bytes) ==
    IF Slice(bytes, 16, 20) = Signature
    THEN Container("DiscContainer", ROOT_CONTAINER_ID, bytes)
    ELSE Container("OldContainer", ROOT_CONTAINER_ID, bytes)

----------------------------------------------------------------------------
(* The File header codec as a state machine: a File's fields, the header   *)
(* header_blob packs from them, and what parse_header reads back.          *)

\* sizeChunks values of the payload lengths tried: the ends of the 16-bit
\* field and one past it
ChunkCounts == {0, 1, 65535, 65536}
PayloadLens == {c * CHUNK_SIZE + r : c \in ChunkCounts, r \in 0..(CHUNK_SIZE - 1)}
SlotIds == {0, 5, 15}
FileTypes == {0, 7}
Unknowns == {0, 9, 15}
LoadAddresses == {<<0, 0>>, <<22136, 4660>>, <<65535, 65535>>}

NotRun == "none"

InitFile ==
    /\ fPacked \in BOOLEAN
    /\ fId \in SlotIds
    /\ fType \in FileTypes
    /\ fUnknown \in Unknowns
    /\ fLoadAddress \in LoadAddresses
    /\ fBlobLen \in PayloadLens
    /\ fHeader = [status |-> NotRun, bytes |-> <<>>]
    /\ fParsed = [NoHeader EXCEPT !.status = NotRun]
    \* no Elf32 and no parse in this specification
    /\ segments = <<>> /\ elfPhase = "idle" /\ resolveLog = <<>> /\ elfBlob = <<>>
    /\ input = <<>> /\ inputId = 0 /\ op = "idle"
    /\ result = [status |-> NotRun]
    /\ output = [status |-> NotRun, bytes |-> <<>>]

\* file.header_blob()
EncodeHeader ==
    /\ fHeader.status = NotRun
    /\ fHeader' = File_header_blob(fPacked, fId, fType, fUnknown, fBlobLen, fLoadAddress)
    /\ UNCHANGED <<fPacked, fId, fType, fUnknown, fLoadAddress, fBlobLen, fParsed>>
    /\ UNCHANGED <<elfVars, parseVars>>

\* File.parse_header(header)
DecodeHeader ==
    /\ fHeader.status = "ok"
    /\ fParsed.status = NotRun
    /\ fParsed' = File_parse_header(fHeader.bytes)
    /\ UNCHANGED <<fPacked, fId, fType, fUnknown, fLoadAddress, fBlobLen, fHeader>>
    /\ UNCHANGED <<elfVars, parseVars>>

NextFile == EncodeHeader \/ DecodeHeader

----------------------------------------------------------------------------
(* Elf32 as rom2elf drives it: add_segment for every segment, then         *)
(* resolve_segment_overlaps when asked for, then to_blob.                  *)

MaxSegs == 3
MaxAddr == 2
MaxSegLen == 3

\* the k-th segment's bytes: distinct per segment and per position
SegBytes(k, n) == [j \in 1..n |-> 16 * k + j]

InitElf ==
    /\ segments = <<>>
    /\ elfPhase = "build"
    /\ resolveLog = <<>>
    /\ elfBlob = <<>>
    \* no File header and no parse in this specification
    /\ fPacked = FALSE /\ fId = 0 /\ fType = 0 /\ fUnknown = 0
    /\ fLoadAddress = <<0, 0>> /\ fBlobLen = 0
    /\ fHeader = [status |-> NotRun, bytes |-> <<>>]
    /\ fParsed = [NoHeader EXCEPT !.status = NotRun]
    /\ input = <<>> /\ inputId = 0 /\ op = "idle"
    /\ result = [status |-> NotRun]
    /\ output = [status |-> NotRun, bytes |-> <<>>]

\* elf.add_segment(data, address)
add_segment ==
    /\ elfPhase = "build"
    /\ Len(segments) < MaxSegs
    /\ \E address \in 0..MaxAddr, n \in 0..MaxSegLen :
          segments' = Append(segments,
                             [data |-> SegBytes(Len(segments) + 1, n), address |-> address])
    /\ UNCHANGED <<elfPhase, resolveLog, elfBlob>>
    /\ UNCHANGED <<fileVars, parseVars>>

\* elf.resolve_segment_overlaps()
Resolve ==
    /\ elfPhase = "build"
    /\ segments # <<>>
    /\ segments' = resolve_segment_overlaps(segments)
    /\ resolveLog' = ResolveTrace(segments)
    /\ elfPhase' = "resolved"
    /\ UNCHANGED elfBlob
    /\ UNCHANGED <<fileVars, parseVars>>

\* elf.resolve_segment_overlaps() on no segments: self.segments[0] raises
ResolveEmpty ==
    /\ elfPhase = "build"
    /\ segments = <<>>
    /\ elfPhase' = "IndexError"
    /\ UNCHANGED <<segments, resolveLog, elfBlob>>
    /\ UNCHANGED <<fileVars, parseVars>>

\* elf.to_blob()
ToBlob ==
    /\ elfPhase \in {"build", "resolved"}
    /\ elfBlob' = Elf32_to_blob(segments)
    /\ elfPhase' = "done"
    /\ UNCHANGED <<segments, resolveLog>>
    /\ UNCHANGED <<fileVars, parseVars>>

NextElf == add_segment \/ Resolve \/ ResolveEmpty \/ ToBlob

----------------------------------------------------------------------------
(* Input buffers.  A container buffer is a pre-table header, a table and a  *)
(* body of pieces; an entry of the table is present (it carries the offset  *)
(* of the next piece boundary) or absent (offset 0).                        *)

\* a File header with slotId 0 and no payload: a Directory's terminator
Term == <<0, 0, 0, 0, 0, 0, 0, 0>>
\* packed, slotId 1, type 2, unknown 3, loadAddress 0x1000, 4 payload bytes
FileA == <<67, 19, 0, 0, 0, 16, 0, 0, 161, 162, 163, 164>>
\* slotId 2 declaring 64 payload bytes, none of which follow
Trunc == <<4, 0, 1, 0, 0, 0, 0, 0>>
\* slotId 1, no payload, loadAddress 0xFFFFFFFF
Sentinel == <<2, 0, 0, 0, 255, 255, 255, 255>>
\* too short for a File header
Short == <<238, 238, 238, 238>>

DiscPre == [i \in 1..16 |-> 80] \o Signature \o [i \in 1..12 |-> 81]
OldPre == [i \in 1..16 |-> 17]

\* a DiscContainer whose table is (0x1d, 0), (5, 44), (0, 0) and whose body is Term
NestedGood == DiscPre \o <<29, 0, 0, 0>> \o <<5, 44, 0, 0>> \o <<0, 0, 0, 0>> \o Term
\* a DiscContainer whose table is (5, 0), (0, 40), with no body
NestedDup == DiscPre \o <<5, 0, 0, 0>> \o <<0, 40, 0, 0>>
\* a DiscContainer whose table is the single legacy entry (5, 36), body Short
NestedLegacy == DiscPre \o <<5, 36, 0, 0>> \o Short

BodyPieces == <<Term, FileA, Trunc, Short, NestedGood, NestedDup>>
RangePieces == <<Term, FileA, Trunc, Sentinel, Short, Signature, NestedGood, NestedLegacy>>

MaxEntries == 3
MaxPieces == 2
MaxRangePieces == 3

RECURSIVE Joined(_, _)
Joined(pieces, ps) ==
    IF ps = <<>> THEN <<>> ELSE pieces[Head(ps)] \o Joined(pieces, Tail(ps))

PieceSeqs(pieces, max) == UNION {[1..k -> DOMAIN pieces] : k \in 0..max}

\* the offset of the k-th piece boundary of a body that starts at offset start
Boundary(ps, start, k) == start + Len(Joined(BodyPieces, SubSeq(ps, 1, Min(k, Len(ps)))))

TableBytes(n, present, firstId, lastId, ps, start) ==
    LET entryId(i) == IF i = n THEN lastId ELSE IF i = 1 THEN firstId ELSE 5
        before(i) == Cardinality({j \in 1..(i - 1) : present[j]})
        offset(i) == IF present[i] THEN Boundary(ps, start, before(i)) ELSE 0
        entries == [i \in 1..n |-> <<entryId(i)>> \o LE(offset(i), 3)]
    IN  Joined(entries, [i \in 1..n |-> i])

ContainerInputsOf(n) ==
    {pre \o TableBytes(n, present, firstId, lastId, ps, Len(pre) + 4 * n)
         \o Joined(BodyPieces, ps) :
        pre \in {DiscPre, OldPre}, present \in [1..n -> BOOLEAN],
        firstId \in {ROOT_CONTAINER_ID, 5}, lastId \in {EXTRA_SPACE_ID, 5},
        ps \in PieceSeqs(BodyPieces, MaxPieces)}

ContainerInputs == UNION {ContainerInputsOf(n) : n \in 1..MaxEntries}

RangeInputs == {Joined(RangePieces, ps) : ps \in PieceSeqs(RangePieces, MaxRangePieces)}

----------------------------------------------------------------------------
(* The parser's entry points as a state machine: one call on the input,    *)
(* then to_blob() on the tree it returned.                                 *)

InitRoot ==
    /\ input \in ContainerInputs
    /\ inputId = 5
    /\ op = "init"
    /\ result = [status |-> NotRun]
    /\ output = [status |-> NotRun, bytes |-> <<>>]
    \* no File header and no Elf32 in this specification
    /\ fPacked = FALSE /\ fId = 0 /\ fType = 0 /\ fUnknown = 0
    /\ fLoadAddress = <<0, 0>> /\ fBlobLen = 0
    /\ fHeader = [status |-> NotRun, bytes |-> <<>>]
    /\ fParsed = [NoHeader EXCEPT !.status = NotRun]
    /\ segments = <<>> /\ elfPhase = "idle" /\ resolveLog = <<>> /\ elfBlob = <<>>

InitRange ==
    /\ input \in RangeInputs
    /\ inputId \in {0, 7}
    /\ op = "init"
    /\ result = [status |-> NotRun]
    /\ output = [status |-> NotRun, bytes |-> <<>>]
    \* no File header and no Elf32 in this specification
    /\ fPacked = FALSE /\ fId = 0 /\ fType = 0 /\ fUnknown = 0
    /\ fLoadAddress = <<0, 0>> /\ fBlobLen = 0
    /\ fHeader = [status |-> NotRun, bytes |-> <<>>]
    /\ fParsed = [NoHeader EXCEPT !.status = NotRun]
    /\ segments = <<>> /\ elfPhase = "idle" /\ resolveLog = <<>> /\ elfBlob = <<>>

\* build_root_container(data)
BuildRoot ==
    /\ op = "init"
    /\ op' = "build_root_container"
    /\ result' = build_root_container(input)
    /\ UNCHANGED <<input, inputId, output>>
    /\ UNCHANGED <<fileVars, elfVars>>

\* DiscContainer(id, data)
NewDiscContainer ==
    /\ op = "init"
    /\ op' = "DiscContainer"
    /\ result' = Container("DiscContainer", inputId, input)
    /\ UNCHANGED <<input, inputId, output>>
    /\ UNCHANGED <<fileVars, elfVars>>

\* OldContainer(id, data)
NewOldContainer ==
    /\ op = "init"
    /\ op' = "OldContainer"
    /\ result' = Container("OldContainer", inputId, input)
    /\ UNCHANGED <<input, inputId, output>>
    /\ UNCHANGED <<fileVars, elfVars>>

\* Container.create_element(id, data)
CreateElement ==
    /\ op = "init"
    /\ op' = "create_element"
    /\ result' = create_element(inputId, input)
    /\ UNCHANGED <<input, inputId, output>>
    /\ UNCHANGED <<fileVars, elfVars>>

\* Directory(id, data)
NewDirectory ==
    /\ op = "init"
    /\ op' = "Directory"
    /\ result' = Built(Directory(inputId, input))
    /\ UNCHANGED <<input, inputId, output>>
    /\ UNCHANGED <<fileVars, elfVars>>

\* element.to_blob() on the tree the call returned
Serialize ==
    /\ result.status = "ok"
    /\ output.status = NotRun
    /\ output' = [status |-> "ok", bytes |-> to_blob(result.node)]
    /\ UNCHANGED <<input, inputId, op, result>>
    /\ UNCHANGED <<fileVars, elfVars>>

NextRoot == BuildRoot \/ NewDiscContainer \/ NewOldContainer \/ Serialize

NextRange == CreateElement \/ NewDirectory \/ Serialize

----------------------------------------------------------------------------
(* Specifications *)

SpecFile == InitFile /\ [][NextFile]_vars

SpecElf == InitElf /\ [][NextElf]_vars

SpecRoot == InitRoot /\ [][NextRoot]_vars

SpecRange == InitRange /\ [][NextRange]_vars

----------------------------------------------------------------------------
(* Claims about the File header codec *)

FileFieldsRead ==
    /\ fParsed.packed = fPacked
    /\ fParsed.id = fId
    /\ fParsed.type = fType
    /\ fParsed.unknown = fUnknown
    /\ fParsed.size = fBlobLen
    /\ fParsed.loadAddress = fLoadAddress

\* C2 as stated: for every in-range packed, slotId, fileType, unknown and
\* loadAddress and EVERY payload length whose remainder modulo 64 is a multiple
\* of 4, header_blob produces 8 bytes and parse_header reads the same fields
\* back from them.
C2_HeaderRoundTripAnyLength ==
    (fHeader.status # NotRun /\ (fBlobLen % CHUNK_SIZE) % 4 = 0) =>
        /\ fHeader.status = "ok"
        /\ Len(fHeader.bytes) = 8
        /\ (fParsed.status # NotRun => (fParsed.status = "ok" /\ FileFieldsRead))

\* C2 amended: the same for every payload length below 64 * 65536, the
\* lengths whose chunk count fits the header's 16-bit sizeChunks field.
C2_HeaderRoundTrip ==
    (fHeader.status # NotRun /\ (fBlobLen % CHUNK_SIZE) % 4 = 0
        /\ fBlobLen < CHUNK_SIZE * 65536) =>
        /\ fHeader.status = "ok"
        /\ Len(fHeader.bytes) = 8
        /\ (fParsed.status # NotRun => (fParsed.status = "ok" /\ FileFieldsRead))

\* a header of the largest remainder and chunk count, with every bit of
\* unknown set, has been packed and read back
C2_Witness ==
    /\ fParsed.status = "ok"
    /\ fBlobLen = 65535 * CHUNK_SIZE + 60
    /\ fUnknown = 15 /\ fId = 15 /\ fType = 7 /\ fPacked
    /\ fLoadAddress = <<65535, 65535>>

----------------------------------------------------------------------------
(* Claims about Elf32 *)

U16At(bytes, offset) == FromLE(SubSeq(bytes, offset + 1, offset + 2))
U32At(bytes, offset) == FromLE(SubSeq(bytes, offset + 1, offset + 4))

\* C3 as stated: the file header to_blob writes for n segments declares
\* e_phnum = n, e_shnum = 1, e_phoff = 0x34, e_shoff = 0x34 + 0x20 * n and
\* e_shstrndx = 0.
C3_ElfHeaderFields ==
    elfPhase = "done" =>
        /\ U16At(elfBlob, 44) = Len(segments)
        /\ U16At(elfBlob, 48) = 1
        /\ U32At(elfBlob, 28) = 52
        /\ U32At(elfBlob, 32) = 52 + 32 * Len(segments)
        /\ U16At(elfBlob, 50) = 0

\* closed address ranges that intersect or touch
Touches(cur, seg) == seg.address <= SegEnd(cur) /\ cur.address <= SegEnd(seg)

ByteAt(seg, a) == seg.data[a - seg.address + 1]

\* C4: whenever resolve_segment_overlaps merges an incoming segment into an
\* existing one, the replacement starts at the lower of the two addresses, runs
\* to the higher of the two ends, holds the incoming bytes at every address of
\* the incoming range and the existing segment's bytes at every other address.
C4_MergeResult ==
    \A k \in DOMAIN resolveLog :
        LET step == resolveLog[k]
            inc == step.incoming
        IN  step.index # 0 =>
            LET cur == step.before[step.index]
                new == step.after[step.index]
                lo == Min(inc.address, cur.address)
                hi == Max(SegEnd(inc), SegEnd(cur))
            IN  /\ new.address = lo
                /\ Len(new.data) = hi - lo
                /\ \A a \in lo..(hi - 1) :
                      ByteAt(new, a) = IF inc.address <= a /\ a < SegEnd(inc)
                                       THEN ByteAt(inc, a) ELSE ByteAt(cur, a)

\* an incoming segment that starts inside an existing one and ends beyond it
\* has been merged (the shape of (0x1000, 16 x AA) then (0x1008, 16 x BB))
C4_Witness ==
    \E k \in DOMAIN resolveLog :
        LET step == resolveLog[k]
        IN  /\ step.index # 0
            /\ step.before[step.index].address < step.incoming.address
            /\ step.incoming.address < SegEnd(step.before[step.index])
            /\ SegEnd(step.before[step.index]) < SegEnd(step.incoming)
            /\ Len(step.after[step.index].data) = MaxSegLen + 1

\* C7 as stated, for segments of nonzero length: an incoming segment whose
\* range intersects or touches the range of some segment of the merged list is
\* merged into the first such segment, no other segment changes and the list
\* does not grow; one that intersects none is appended unchanged.  An incoming
\* range that strictly contains an existing one intersects it.
C7_OverlapDetection ==
    \A k \in DOMAIN resolveLog :
        LET step == resolveLog[k]
            hits == {i \in 1..Len(step.before) : Touches(step.before[i], step.incoming)}
        IN  (step.incoming.data # <<>>
                /\ \A i \in 1..Len(step.before) : step.before[i].data # <<>>) =>
            IF hits = {}
            THEN step.after = Append(step.before, step.incoming)
            ELSE LET first == CHOOSE i \in hits : \A j \in hits : i <= j
                 IN  /\ Len(step.after) = Len(step.before)
                     /\ step.index = first
                     /\ \A i \in 1..Len(step.before) :
                           i # first => step.after[i] = step.before[i]

----------------------------------------------------------------------------
(* Claims about the container parser and builder *)

RECURSIVE FilesFit(_, _)
RECURSIVE WellLaidContainer(_, _)
RECURSIVE WellLaidRange(_)

\* every File header read back to back from offset on, up to the terminator,
\* declares no more payload than the range still holds
FilesFit(bytes, offset) ==
    IF offset + 8 > Len(bytes) THEN TRUE
    ELSE LET h == File_parse_header(Slice(bytes, offset, offset + 8))
         IN  /\ h.size <= Len(bytes) - offset - 8
             /\ (h.id = 0 \/ FilesFit(bytes, offset + 8 + h.size))

\* the offsets of a table without its trailing run of zero offsets
RECURSIVE StripZeros(_)
StripZeros(offsets) ==
    IF offsets # <<>> /\ offsets[Len(offsets)] = 0
    THEN StripZeros(SubSeq(offsets, 1, Len(offsets) - 1))
    ELSE offsets

\* a container buffer laid out the way the builder lays one out: a complete
\* table; a new-dialect table starts with the entry (0x1d, 0) and a legacy one
\* does not start with id 0x1d; zero offsets are only that first entry and a
\* trailing run of entries; the other offsets strictly increase and stay within
\* the buffer; every child range is itself well laid out
WellLaidContainer(bytes, preLen) ==
    /\ Len(bytes) >= preLen + 4
    /\ LET first == parse_entry(Slice(bytes, preLen, preLen + 4))
           legacy == first.offset # 0
           table == IF legacy THEN get_elements_old(bytes, preLen)
                    ELSE get_elements_new(bytes, preLen)
           es == table.elements
           offsets == [i \in DOMAIN es |-> es[i].offset]
           body == StripZeros(offsets)
           nz == IF legacy THEN body ELSE Tail(body)
       IN  /\ table.status = "ok"
           /\ es # <<>>
           /\ (first.id = ROOT_CONTAINER_ID) = ~legacy
           /\ body # <<>>
           /\ \A i \in DOMAIN nz : nz[i] # 0
           /\ \A i \in 1..(Len(nz) - 1) : nz[i] < nz[i + 1]
           /\ (nz # <<>> => nz[Len(nz)] <= Len(bytes))
           /\ \A i \in 1..(Len(es) - 1) :
                 (es[i].id = ROOT_CONTAINER_ID \/ es[i].offset = 0)
                 \/ WellLaidRange(Slice(bytes, es[i].offset, es[i + 1].offset))
           /\ WellLaidRange(From(bytes, body[Len(body)]))

\* a child range: a well laid out DiscContainer, or a Directory whose Files'
\* declared payloads all fit, or a Blob
WellLaidRange(bytes) ==
    IF Len(bytes) > 36 /\ Slice(bytes, 16, 20) = Signature
    THEN WellLaidContainer(bytes, 32)
    ELSE IF Len(bytes) < 8 THEN TRUE
    ELSE LET h == File_parse_header(Slice(bytes, 0, 8))
         IN  (h.size <= Len(bytes) /\ h.loadAddress # <<65535, 65535>>)
                 => FilesFit(bytes, 0)

WellLaidOut(bytes) ==
    WellLaidContainer(bytes, IF Slice(bytes, 16, 20) = Signature THEN 32 ELSE 16)

\* C1 as stated, a valid buffer being one that build_root_container parses
\* without error: to_blob() on the tree parsed from B returns exactly B.
C1_RoundTripEveryParsed ==
    (op = "build_root_container" /\ output.status = "ok") => output.bytes = input

\* C1 amended: for every buffer B that build_root_container parses without
\* error and that is well laid out, to_blob() on the unmodified tree returns
\* exactly B.
C1_RoundTrip ==
    (op = "build_root_container" /\ output.status = "ok" /\ WellLaidOut(input))
        => output.bytes = input

\* a well laid out root holding a nested DiscContainer (whose own table ends in
\* a zero-offset entry) and a Directory whose File carries a payload has been
\* parsed and written back
C1_Witness ==
    /\ op = "build_root_container" /\ output.status = "ok"
    /\ WellLaidOut(input)
    /\ output.bytes = input
    /\ \E i \in DOMAIN result.node.elements :
          /\ result.node.elements[i].kind = "DiscContainer"
          /\ Len(result.node.elements[i].elements) = 3
    /\ \E j \in DOMAIN result.node.elements :
          LET d == result.node.elements[j]
          IN  /\ d.kind = "Directory"
              /\ d.elements # <<>>
              /\ d.elements[1].kind = "File"
              /\ Len(d.elements[1].blob) > 0

\* the tables Container.__init__ reads from bytes as the given class
TableOf(kind, bytes) ==
    LET preLen == PRE_TABLE_HEADER_LENGTH(kind)
    IN  IF parse_entry(Slice(bytes, preLen, preLen + 4)).offset # 0
        THEN get_elements_old(bytes, preLen)
        ELSE get_elements_new(bytes, preLen)

HasSignature(bytes) == Slice(bytes, 16, 20) = Signature

\* the class the call at hand constructs
KindOf(name, bytes) ==
    IF name = "build_root_container"
    THEN (IF HasSignature(bytes) THEN "DiscContainer" ELSE "OldContainer")
    ELSE name

\* C6: build_root_container returns a DiscContainer with a 32-byte pre-table
\* header and id 0x1d exactly when bytes 16..20 of the input are "csiD" and
\* otherwise an OldContainer with a 16-byte pre-table header and id 0x1d; a
\* DiscContainer over data without the signature and an OldContainer over data
\* with it end in an error and yield no tree.
C6_DialectDetection ==
    /\ (op = "build_root_container" /\ result.status = "ok") =>
          /\ result.node.id = ROOT_CONTAINER_ID
          /\ result.node.kind =
                (IF HasSignature(input) THEN "DiscContainer" ELSE "OldContainer")
          /\ Len(result.node.preSegmentTableHeader) =
                (IF HasSignature(input) THEN 32 ELSE 16)
    /\ (op = "DiscContainer" /\ ~HasSignature(input)) =>
          result.status = "AssertionError"
    /\ (op = "OldContainer" /\ HasSignature(input)) =>
          result.status = "AssertionError"

\* OldContainer has refused a buffer that carries the signature and that
\* build_root_container parses into a DiscContainer
C6_Witness ==
    /\ op = "OldContainer" /\ HasSignature(input)
    /\ result.status = "AssertionError"
    /\ build_root_container(input).status = "ok"
    /\ build_root_container(input).node.kind = "DiscContainer"

----------------------------------------------------------------------------
(* Claims about Directory parsing *)

\* the Files among a Directory's children
FilesOf(node) == SelectSeq(node.elements, LAMBDA e : e.kind = "File")

\* the bytes a File read from a buffer took from it: its header and the payload
\* bytes that were there
RECURSIVE Consumed(_, _)
Consumed(files, k) ==
    IF k = 0 THEN 0 ELSE Consumed(files, k - 1) + 8 + Len(files[k].blob)

\* C5: Directory parsing reads Files back to back from offset 0, stops right
\* after the first File whose slotId is 0 (which it keeps) or when fewer than 8
\* bytes remain, and appends exactly one Blob with id 0 holding the unconsumed
\* bytes when there are any and no Blob when there are none.
C5_DirectoryTerminator ==
    op = "Directory" =>
        LET node == result.node
            files == FilesOf(node)
            n == Len(files)
            end == Consumed(files, n)
        IN  /\ result.status = "ok"
            /\ node.kind = "Directory" /\ node.id = inputId
            /\ \A i \in 1..n :
                  /\ node.elements[i] = files[i]
                  /\ Consumed(files, i - 1) + 8 <= Len(input)
                  /\ LET at == Consumed(files, i - 1)
                         h == File_parse_header(Slice(input, at, at + 8))
                     IN  /\ files[i].id = h.id
                         /\ files[i].size = h.size
                         /\ files[i].blob = Slice(input, at + 8, at + 8 + h.size)
                  /\ (i < n => files[i].id # 0)
            /\ ((n = 0 \/ files[n].id # 0) => Len(input) - end < 8)
            /\ IF end < Len(input)
               THEN /\ Len(node.elements) = n + 1
                    /\ node.elements[n + 1] = Blob(0, From(input, end))
               ELSE Len(node.elements) = n

\* a Directory of one File, the terminator File and four more bytes has been
\* parsed: two Files and the trailing Blob
C5_Witness ==
    /\ op = "Directory"
    /\ input = FileA \o Term \o Short
    /\ Len(result.node.elements) = 3
    /\ result.node.elements[2].kind = "File" /\ result.node.elements[2].id = 0
    /\ result.node.elements[3] = Blob(0, Short)

----------------------------------------------------------------------------
(* Claims about Container.create_element *)

\* the class the classifier picks for a range that holds the signature at bytes
\* 16..20 from the length sigLen on
Classified(bytes, sigLen) ==
    IF Len(bytes) >= sigLen /\ HasSignature(bytes) THEN "DiscContainer"
    ELSE IF Len(bytes) < 8 THEN "Blob"
    ELSE LET h == File_parse_header(Slice(bytes, 0, 8))
         IN  IF h.size <= Len(bytes) /\ h.loadAddress # <<65535, 65535>>
             THEN "Directory" ELSE "Blob"

\* a Blob and a Directory are always built; a DiscContainer is built unless its
\* own decoding fails
Classifies(sigLen) ==
    op = "create_element" =>
        /\ (Classified(input, sigLen) # "DiscContainer" => result.status = "ok")
        /\ (result.status = "ok" =>
              /\ result.node.kind = Classified(input, sigLen)
              /\ result.node.id = inputId
              /\ (result.node.kind = "Blob" => result.node.data = input))

\* C10 as stated: create_element returns a DiscContainer whenever the range is
\* long enough to hold bytes 16..20 (20 bytes) and they are "csiD"; otherwise a
\* Blob when shorter than 8 bytes; otherwise a Directory exactly when the
\* decoded payload length does not exceed the range length and the decoded
\* loadAddress is not 0xFFFFFFFF; otherwise a Blob of the whole range; the node
\* carries the given id.
C10_ClassifierFrom20 == Classifies(20)

\* C10 amended: the same with a DiscContainer returned whenever the range is
\* longer than 36 bytes and bytes 16..20 are "csiD"; a shorter range holding
\* the signature is classified by the rules that follow.
C10_Classifier == Classifies(37)

\* a 20-byte range that ends in the signature has been classified, and not as
\* a DiscContainer
C10_Witness ==
    /\ op = "create_element" /\ result.status = "ok"
    /\ Len(input) = 20 /\ HasSignature(input)
    /\ result.node.kind = "Directory"
    /\ result.node.id = inputId

----------------------------------------------------------------------------
(* Claims about the offset table *)

\* the encoded sizes of a container's children
Sizes(node) == [i \in DOMAIN node.elements |-> Len(to_blob(node.elements[i]))]

RECURSIVE SumFrom(_, _, _)
SumFrom(sizes, a, b) == IF a > b THEN 0 ELSE sizes[a] + SumFrom(sizes, a + 1, b)

\* the children before the i-th whose encoded size is zero
ZeroBefore(sizes, i) == {j \in 1..(i - 1) : sizes[j] = 0}

\* the i-th offset when a zero-size child zeroes every later entry
StickyOffset(sizes, start, i) ==
    IF ZeroBefore(sizes, i) # {} THEN 0 ELSE start + SumFrom(sizes, 1, i - 1)

\* the i-th offset when the cursor restarts from 0 at a zero-size child: the
\* sizes of the children placed since the most recent one
RestartOffset(sizes, start, i) ==
    IF ZeroBefore(sizes, i) = {} THEN start + SumFrom(sizes, 1, i - 1)
    ELSE LET z == CHOOSE j \in ZeroBefore(sizes, i) :
                      \A k \in ZeroBefore(sizes, i) : k <= j
         IN  SumFrom(sizes, z + 1, i - 1)

\* the table of the written container is the pre-table header and one entry
\* per child, in child order, with the child's id and its offset by either rule
TableWritten(sticky) ==
    (op \in {"build_root_container", "DiscContainer", "OldContainer"}
        /\ output.status = "ok"
        /\ result.node.elements[1].id # ROOT_CONTAINER_ID) =>
        LET node == result.node
            pre == node.preSegmentTableHeader
            n == Len(node.elements)
            start == Len(pre) + 4 * n
        IN  /\ Len(output.bytes) >= start
            /\ SubSeq(output.bytes, 1, Len(pre)) = pre
            /\ \A i \in 1..n :
                  SubSeq(output.bytes, Len(pre) + 4 * i - 3, Len(pre) + 4 * i)
                      = <<node.elements[i].id % 256>>
                        \o LE(IF sticky THEN StickyOffset(Sizes(node), start, i)
                              ELSE RestartOffset(Sizes(node), start, i), 3)

\* C8 as stated: a written table is the pre-table header and one 4-byte entry
\* per child in child order with id = child id mod 256; the first offset is
\* len(preTableHeader) + 4 * (number of children); the cursor advances by each
\* nonzero encoded size; once a child of zero encoded size has been placed
\* every later entry carries offset 0.
C8_TableStickyZero == TableWritten(TRUE)

\* C8 amended: the same, except that the entry right after a child of zero
\* encoded size carries offset 0 and the cursor advances again from there: a
\* later entry carries the sum of the encoded sizes of the children placed
\* since the most recent zero-size child.
C8_TableReconstruction == TableWritten(FALSE)

\* a table has been written for children of which the first has zero encoded
\* size and the second has not: the third entry carries the second's size
C8_Witness ==
    /\ op = "OldContainer" /\ output.status = "ok"
    /\ Len(result.node.elements) = 3
    /\ result.node.elements[1].id # ROOT_CONTAINER_ID
    /\ Sizes(result.node)[1] = 0
    /\ Sizes(result.node)[2] > 0
    /\ SubSeq(output.bytes, 25, 28)
          = <<result.node.elements[3].id>> \o LE(Sizes(result.node)[2], 3)

\* the last index of a table whose offset is not zero, 0 when there is none
LastPresent(es) ==
    IF \A i \in DOMAIN es : es[i].offset = 0 THEN 0
    ELSE CHOOSE i \in DOMAIN es :
             es[i].offset # 0 /\ \A j \in DOMAIN es : es[j].offset # 0 => j <= i

\* C9: for every parsed table Container parsing ends; when the final entry's
\* offset is 0 the last child is read from the offset of the nearest earlier
\* entry with a nonzero offset to the end of the buffer; when no entry has a
\* nonzero offset the parse ends in an error and returns no tree.
C9_BackwardScan ==
    (op \in {"build_root_container", "DiscContainer", "OldContainer"}
        /\ signature_assert(KindOf(op, input), input)
        /\ TableOf(KindOf(op, input), input).status = "ok") =>
        LET es == TableOf(KindOf(op, input), input).elements
            k == LastPresent(es)
        IN  /\ result.status # NotRun
            /\ (k = 0 => result.status = "IndexError")
            /\ (k # 0 /\ result.status = "ok") =>
                  /\ Len(result.node.elements) = Len(es)
                  /\ Built(result.node.elements[Len(es)])
                        = create_element(es[Len(es)].id, From(input, es[k].offset))

\* a table of three entries whose last offset is 0 and whose first two are
\* present has been parsed into a tree
C9_Witness ==
    /\ op = "OldContainer" /\ result.status = "ok"
    /\ LET es == TableOf("OldContainer", input).elements
       IN  /\ Len(es) = 3
           /\ es[3].offset = 0
           /\ es[1].offset # 0 /\ es[2].offset # 0 /\ es[1].offset # es[2].offset
           /\ to_blob(result.node.elements[3]) = From(input, es[2].offset)

====
